---- MODULE Spec2Model ----
(***************************************************************************)
(* s3hive: the Bucket facade of s3hive/bucket.py over the boto3 S3 client. *)
(*                                                                         *)
(* The state is what the facade's calls read and write: the remote        *)
(* account (buckets, their objects, versioning), the local filesystem     *)
(* (files, directories) and the outcome of the last call.  One action per *)
(* public method of Bucket.  Each SDK call made by a method is answered   *)
(* by the service: a response, a botocore ClientError, or an SDK error    *)
(* that is not a ClientError.                                              *)
(*                                                                         *)
(* Strings with "/" (paths, object keys) are sequences of components.     *)
(* Python dicts are functions; a missing key is a name outside DOMAIN.    *)
(***************************************************************************)
EXTENDS Integers, Sequences, FiniteSets, TLC

VARIABLES
    buckets,    \* the account's bucket descriptors, in listing order
    objects,    \* bucket name -> (key -> body) for the existing buckets
    versioned,  \* names of the buckets that have versioning enabled (set outside the facade)
    files,      \* local path -> content for the existing local files
    dirs,       \* local paths that are existing directories
    ncalls,     \* number of facade calls made so far
    ret         \* the last facade call: op, args, SDK calls issued, result

vars == <<buckets, objects, versioned, files, dirs, ncalls, ret>>

----------------------------------------------------------------------------
(* Bounds and input sets *)

MaxCalls == 3

Contents == {<<>>, <<7>>}
SizeHints == {1}

BucketNames == {"bucket1", "bucket2"}
Acls == {"private", "public-read"}
Keys == {<<"a.yml">>, <<"p", "b.yml">>}
\* every key an upload can name, in the service's (lexicographic) listing order
KeyOrder == <<<<"a.yml">>, <<"b.yml">>, <<"missing.yml">>, <<"p", "b.yml">>>>
SrcA == <<"src", "a.yml">>
SrcB == <<"b.yml">>
Missing == <<"missing.yml">>
FileNames == {SrcA, SrcB, Missing}
OutDir == <<"tmp", "out">>
LocalDirs == {OutDir}
Expirations == {3600}

None == [some |-> FALSE]
Some(x) == [some |-> TRUE, v |-> x]

----------------------------------------------------------------------------
(* Python values and outcomes of a call *)

PyTrue == [type |-> "bool", v |-> TRUE]
PyNone == [type |-> "NoneType"]
PyList(s) == [type |-> "list", v |-> s]
PyStr(s) == [type |-> "str", v |-> s]
PyTuple(a, b) == [type |-> "tuple", v0 |-> a, v1 |-> b]

Return(v) == [outcome |-> "return", value |-> v]
Raise(t, a) == [outcome |-> "raise", value |-> [type |-> t, args |-> a]]

(* What an SDK call yields: a parsed response, a ClientError carrying the  *)
(* service's error response, or any other exception of the SDK.            *)
Ok(resp) == [kind |-> "ok", response |-> resp]
ClientError(code, status) ==
    [kind |-> "ClientError",
     response |-> [Error |-> [Code |-> code],
                   ResponseMetadata |-> [HTTPStatusCode |-> status]]]
NotCalled == [kind |-> "not called"]
Done == [kind |-> "ok"]
FileNotFoundError == [kind |-> "FileNotFoundError"]
SdkError == [kind |-> "SdkError", response |-> [Error |-> [Code |-> "BotoCoreError"]]]

Metadata(status) == [HTTPStatusCode |-> status]

(* Statuses below 300 are responses; botocore raises ClientError otherwise. *)
SuccessStatuses == {200, 204}

(* The failures any request can meet whatever the account holds. *)
AnyFailure == {ClientError("AccessDenied", 403), SdkError}

----------------------------------------------------------------------------
(* Helpers on sequences and paths *)

Last(s) == s[Len(s)]

Prefixes(p) == {SubSeq(p, 1, n) : n \in 1..Len(p)}

Exists(p) == p \in dirs \/ p \in DOMAIN files

BucketExists(b) == b \in DOMAIN objects

RemoveAt(s, i) == [j \in 1..(Len(s) - 1) |-> IF j < i THEN s[j] ELSE s[j + 1]]

Without(f, k) == [x \in (DOMAIN f) \ {k} |-> f[x]]

With(f, k, v) == [x \in (DOMAIN f) \cup {k} |-> IF x = k THEN v ELSE f[x]]

----------------------------------------------------------------------------
(* The remote service, as the SDK calls of bucket.py see it.  Each operator *)
(* is the set of ways the call can end: r is what the SDK call yields, and  *)
(* buckets/objects the account afterwards.                                  *)

EmptyMap == [k \in {} |-> <<>>]

Unchanged(r) == [r |-> r, buckets |-> buckets, objects |-> objects]

Failures == {Unchanged(f) : f \in AnyFailure}

IndexOf(b) == CHOOSE i \in 1..Len(buckets) : buckets[i].Name = b

S3CreateBucket(bucket) ==
    Failures \cup
    IF BucketExists(bucket)
    THEN {Unchanged(ClientError("BucketAlreadyOwnedByYou", 409))}
    ELSE {[r |-> Ok([ResponseMetadata |-> Metadata(s)]),
           buckets |-> Append(buckets, [Name |-> bucket, CreationDate |-> ncalls + 1]),
           objects |-> With(objects, bucket, EmptyMap)] : s \in SuccessStatuses}

S3DeleteBucket(bucket) ==
    Failures \cup
    IF ~BucketExists(bucket)
    THEN {Unchanged(ClientError("NoSuchBucket", 404))}
    ELSE IF DOMAIN objects[bucket] # {}
    THEN {Unchanged(ClientError("BucketNotEmpty", 409))}
    ELSE {[r |-> Ok([ResponseMetadata |-> Metadata(s)]),
           buckets |-> RemoveAt(buckets, IndexOf(bucket)),
           objects |-> Without(objects, bucket)] : s \in SuccessStatuses}

S3ListBuckets ==
    Failures \cup {Unchanged(Ok([Buckets |-> buckets]))}

(* The keys a bucket holds, in the order the service lists them. *)
Listing(bucket) ==
    LET held == SelectSeq(KeyOrder, LAMBDA k : k \in DOMAIN objects[bucket])
    IN  [i \in 1..Len(held) |-> [Key |-> held[i], Size |-> Len(objects[bucket][held[i]])]]

(* list_objects_v2 answers a bucket without objects with no "Contents". *)
S3ListObjectsV2(bucket) ==
    Failures \cup
    IF ~BucketExists(bucket)
    THEN {Unchanged(ClientError("NoSuchBucket", 404))}
    ELSE IF Listing(bucket) = <<>>
    THEN {Unchanged(Ok([KeyCount |-> 0]))}
    ELSE {Unchanged(Ok([KeyCount |-> Len(Listing(bucket)), Contents |-> Listing(bucket)]))}

S3GeneratePresignedUrl(bucket, key, expiration) ==
    Failures \cup {Unchanged(Ok([Bucket |-> bucket, Key |-> key, Expires |-> expiration]))}

(* upload_file returns None when the transfer completes. *)
S3UploadFile(file_name, bucket, key) ==
    Failures \cup
    IF file_name \notin DOMAIN files
    THEN {}
    ELSE IF ~BucketExists(bucket)
    THEN {Unchanged(ClientError("NoSuchBucket", 404))}
    ELSE {[r |-> Ok(PyNone),
           buckets |-> buckets,
           objects |-> [objects EXCEPT ![bucket] = With(@, key, files[file_name])]]}

HasObject(bucket, key) == BucketExists(bucket) /\ key \in DOMAIN objects[bucket]

(* ExpectedBucketOwner is the access key id; a service that checks it      *)
(* answers AccessDenied, one of the failures any request can meet.          *)
S3HeadObject(bucket, key) ==
    Failures \cup
    IF HasObject(bucket, key)
    THEN {Unchanged(Ok([ContentLength |-> Len(objects[bucket][key])]))}
    ELSE {Unchanged(ClientError("404", 404))}

(* download_file returns None when the transfer completes; body is what it *)
(* has then written to the local file.                                      *)
S3DownloadFile(bucket, key) ==
    {[r |-> f, body |-> <<>>] : f \in AnyFailure} \cup
    IF HasObject(bucket, key)
    THEN {[r |-> Ok(PyNone), body |-> objects[bucket][key]]}
    ELSE {[r |-> ClientError("404", 404), body |-> <<>>]}

(* A delete on a versioned bucket creates a delete marker and says so; on  *)
(* a bucket without versioning the response has no "DeleteMarker".          *)
S3DeleteObject(bucket, key) ==
    Failures \cup
    IF ~BucketExists(bucket)
    THEN {Unchanged(ClientError("NoSuchBucket", 404))}
    ELSE {[r |-> Ok(IF bucket \in versioned
                    THEN [ResponseMetadata |-> Metadata(s), DeleteMarker |-> TRUE]
                    ELSE [ResponseMetadata |-> Metadata(s)]),
           buckets |-> buckets,
           objects |-> [objects EXCEPT ![bucket] = Without(@, key)]] : s \in SuccessStatuses}

----------------------------------------------------------------------------
(* The facade: class Bucket.  Each method is an operator from the outcomes *)
(* of the SDK calls it makes to the way the method ends.                    *)

basename(path) == Last(path)

(* The handler returning instead of raising. *)
_client_error_swallow(e) == Return(PyNone)

(* raise Exception(e.response) *)
_client_error(e) == Raise("Exception", e.response)

(* An exception no except clause of the method names leaves the method. *)
Uncaught(e) == Raise(e.kind, e.response)

create_bucket(r) ==
    IF r.kind = "ClientError" THEN _client_error(r)
    ELSE IF r.kind # "ok" THEN Uncaught(r)
    ELSE IF r.response["ResponseMetadata"]["HTTPStatusCode"] = 200 THEN Return(PyTrue)
    ELSE Return(PyNone)

delete_bucket(r) ==
    IF r.kind = "ClientError" THEN _client_error(r)
    ELSE IF r.kind # "ok" THEN Uncaught(r)
    ELSE IF r.response["ResponseMetadata"]["HTTPStatusCode"] = 204 THEN Return(PyTrue)
    ELSE Return(PyNone)

(* The names built over all but the last descriptor. *)
list_buckets_short(r, names_only) ==
    IF r.kind = "ClientError" THEN _client_error(r)
    ELSE IF r.kind # "ok" THEN Uncaught(r)
    ELSE IF ~names_only THEN Return(PyList(r.response["Buckets"]))
    ELSE Return(PyList([i \in 1..(Len(r.response["Buckets"]) - 1) |->
                            r.response["Buckets"][i]["Name"]]))

list_buckets(r, names_only) ==
    IF r.kind = "ClientError" THEN _client_error(r)
    ELSE IF r.kind # "ok" THEN Uncaught(r)
    ELSE IF ~names_only THEN Return(PyList(r.response["Buckets"]))
    ELSE Return(PyList([i \in 1..Len(r.response["Buckets"]) |->
                            r.response["Buckets"][i]["Name"]]))

list_objects(r, keys_only) ==
    IF r.kind = "ClientError" THEN _client_error(r)
    ELSE IF r.kind # "ok" THEN Uncaught(r)
    ELSE IF "Contents" \notin DOMAIN r.response THEN Raise("KeyError", "Contents")
    ELSE IF ~keys_only THEN Return(PyList(r.response["Contents"]))
    ELSE Return(PyList([i \in 1..Len(r.response["Contents"]) |->
                            r.response["Contents"][i]["Key"]]))

create_presigned_url(r) ==
    IF r.kind = "ClientError" THEN _client_error(r)
    ELSE IF r.kind # "ok" THEN Uncaught(r)
    ELSE Return(PyStr(r.response))

(* The key defaulting to file_name itself, as the docstring words it. *)
upload_key_file_name(file_name, key) ==
    IF ~key.some THEN file_name ELSE key.v

(* key = os.path.basename(file_name) if key is None *)
upload_key(file_name, key) ==
    IF ~key.some THEN <<basename(file_name)>> ELSE key.v

(* The local file_size when the try block is entered: assigned only when   *)
(* no filesize is given and os.path.getsize finds the file; None stands    *)
(* for the name being unbound.                                              *)
upload_file_size(file_name, filesize) ==
    IF filesize.some THEN None
    ELSE IF file_name \in DOMAIN files THEN Some(Len(files[file_name]))
    ELSE None

(* tqdm(total=file_size, ...) is evaluated before upload_file is called. *)
upload_reaches_transfer(file_name, filesize) ==
    upload_file_size(file_name, filesize).some

(* The calls upload makes, in order; r answers upload_file. *)
upload_calls(file_name, filesize, r) ==
    (IF filesize.some THEN <<>>
     ELSE <<[call |-> "getsize",
             r |-> IF file_name \in DOMAIN files THEN Done ELSE FileNotFoundError]>>)
    \o (IF upload_reaches_transfer(file_name, filesize)
        THEN <<[call |-> "upload_file", r |-> r]>>
        ELSE <<>>)

upload(file_name, filesize, r) ==
    IF ~upload_reaches_transfer(file_name, filesize)
    THEN Raise("UnboundLocalError", "file_size")
    ELSE IF r.kind = "ClientError" THEN _client_error(r)
    ELSE IF r.kind # "ok" THEN Uncaught(r)
    ELSE IF r.response = PyNone THEN Return(PyTrue)
    ELSE Return(PyNone)

(* download_file called whatever head_object did. *)
download_transfer_always(head) == TRUE

(* download_file is called in the try block after head_object returned. *)
download_reaches_transfer(head) == head.kind = "ok"

(* The directory made only once head_object has returned. *)
download_calls_dir_after_head(local_dir, head, xfer) ==
    <<[call |-> "head_object", r |-> head]>>
    \o (IF download_reaches_transfer(head) /\ ~Exists(local_dir)
        THEN <<[call |-> "makedirs", r |-> Done]>> ELSE <<>>)
    \o (IF download_reaches_transfer(head)
        THEN <<[call |-> "download_file", r |-> xfer]>>
        ELSE <<>>)

(* The calls download makes, in order; head answers head_object and xfer   *)
(* download_file.                                                           *)
download_calls(local_dir, head, xfer) ==
    (IF ~Exists(local_dir) THEN <<[call |-> "makedirs", r |-> Done]>> ELSE <<>>)
    \o <<[call |-> "head_object", r |-> head]>>
    \o (IF download_reaches_transfer(head)
        THEN <<[call |-> "download_file", r |-> xfer]>>
        ELSE <<>>)

download(head, xfer) ==
    IF head.kind = "ClientError" THEN _client_error(head)
    ELSE IF head.kind # "ok" THEN Uncaught(head)
    ELSE IF xfer.kind = "ClientError" THEN _client_error(xfer)
    ELSE IF xfer.kind # "ok" THEN Uncaught(xfer)
    ELSE IF xfer.response = PyNone THEN Return(PyTrue)
    ELSE Return(PyNone)

(* The key joined to the directory whole. *)
local_file_whole_key(local_dir, key) == local_dir \o key

(* local_file = os.path.join(local_dir, os.path.basename(key)) *)
local_file(local_dir, key) == local_dir \o <<basename(key)>>

delete(r) ==
    IF r.kind = "ClientError" THEN _client_error(r)
    ELSE IF r.kind # "ok" THEN Uncaught(r)
    ELSE IF r.response["ResponseMetadata"]["HTTPStatusCode"] = 204
    THEN Return(PyTuple(IF "DeleteMarker" \in DOMAIN r.response
                        THEN r.response["DeleteMarker"] ELSE FALSE,
                        r.response["ResponseMetadata"]))
    ELSE Return(PyNone)

----------------------------------------------------------------------------
(* The calls *)

Call(op, args, calls, result) ==
    [op |-> op, args |-> args, calls |-> calls,
     outcome |-> result.outcome, value |-> result.value]

Sdk(name, r) == <<[call |-> name, r |-> r]>>

Init ==
    /\ \E order \in {<<>>, <<"bucket1", "bucket2">>} :
          /\ buckets = [i \in DOMAIN order |-> [Name |-> order[i], CreationDate |-> 0]]
          /\ objects = [b \in {order[i] : i \in DOMAIN order} |-> EmptyMap]
    /\ versioned = {"bucket2"}
    /\ files \in [{SrcA, SrcB} -> Contents]
    /\ dirs = {<<"src">>}
    /\ ncalls = 0
    /\ ret = Call("__init__", None, <<>>, Return(PyNone))

CreateBucket ==
    /\ ncalls < MaxCalls
    /\ \E bucket \in BucketNames, acl \in Acls :
       \E t \in S3CreateBucket(bucket) :
          /\ buckets' = t.buckets
          /\ objects' = t.objects
          /\ ret' = Call("create_bucket", [bucket |-> bucket, acl |-> acl],
                         Sdk("create_bucket", t.r), create_bucket(t.r))
    /\ ncalls' = ncalls + 1
    /\ UNCHANGED <<versioned, files, dirs>>

DeleteBucket ==
    /\ ncalls < MaxCalls
    /\ \E bucket \in BucketNames :
       \E t \in S3DeleteBucket(bucket) :
          /\ buckets' = t.buckets
          /\ objects' = t.objects
          /\ ret' = Call("delete_bucket", [bucket |-> bucket],
                         Sdk("delete_bucket", t.r), delete_bucket(t.r))
    /\ ncalls' = ncalls + 1
    /\ UNCHANGED <<versioned, files, dirs>>

ListBuckets ==
    /\ ncalls < MaxCalls
    /\ \E names_only \in BOOLEAN :
       \E t \in S3ListBuckets :
          ret' = Call("list_buckets", [names_only |-> names_only],
                      Sdk("list_buckets", t.r), list_buckets(t.r, names_only))
    /\ ncalls' = ncalls + 1
    /\ UNCHANGED <<buckets, objects, versioned, files, dirs>>

ListObjects ==
    /\ ncalls < MaxCalls
    /\ \E bucket \in BucketNames, keys_only \in BOOLEAN :
       \E t \in S3ListObjectsV2(bucket) :
          ret' = Call("list_objects", [bucket |-> bucket, keys_only |-> keys_only],
                      Sdk("list_objects_v2", t.r), list_objects(t.r, keys_only))
    /\ ncalls' = ncalls + 1
    /\ UNCHANGED <<buckets, objects, versioned, files, dirs>>

CreatePresignedUrl ==
    /\ ncalls < MaxCalls
    /\ \E bucket \in BucketNames, key \in Keys, expiration \in Expirations :
       \E t \in S3GeneratePresignedUrl(bucket, key, expiration) :
          ret' = Call("create_presigned_url",
                      [bucket |-> bucket, key |-> key, expiration |-> expiration],
                      Sdk("generate_presigned_url", t.r), create_presigned_url(t.r))
    /\ ncalls' = ncalls + 1
    /\ UNCHANGED <<buckets, objects, versioned, files, dirs>>

Upload ==
    /\ ncalls < MaxCalls
    /\ \E bucket \in BucketNames, file_name \in FileNames,
          key \in {None} \cup {Some(k) : k \in Keys},
          filesize \in {None} \cup {Some(n) : n \in SizeHints} :
       \E t \in IF upload_reaches_transfer(file_name, filesize)
                THEN S3UploadFile(file_name, bucket, upload_key(file_name, key))
                ELSE {Unchanged(NotCalled)} :
          /\ objects' = t.objects
          /\ ret' = Call("upload",
                         [bucket |-> bucket, file_name |-> file_name,
                          key |-> key, filesize |-> filesize],
                         upload_calls(file_name, filesize, t.r),
                         upload(file_name, filesize, t.r))
    /\ ncalls' = ncalls + 1
    /\ UNCHANGED <<buckets, versioned, files, dirs>>

Download ==
    /\ ncalls < MaxCalls
    /\ \E bucket \in BucketNames, key \in Keys, local_dir \in LocalDirs :
       \E h \in S3HeadObject(bucket, key) :
       \E x \in IF download_reaches_transfer(h.r)
                THEN S3DownloadFile(bucket, key)
                ELSE {[r |-> NotCalled, body |-> <<>>]} :
          LET calls == download_calls(local_dir, h.r, x.r)
              made == \E i \in DOMAIN calls : calls[i].call = "makedirs"
              wrote == \E i \in DOMAIN calls :
                          calls[i].call = "download_file" /\ calls[i].r.kind = "ok"
          IN  /\ dirs' = IF made THEN dirs \cup Prefixes(local_dir) ELSE dirs
              /\ files' = IF wrote THEN With(files, local_file(local_dir, key), x.body)
                          ELSE files
              /\ ret' = Call("download",
                             [bucket |-> bucket, key |-> key, local_dir |-> local_dir],
                             calls, download(h.r, x.r))
    /\ ncalls' = ncalls + 1
    /\ UNCHANGED <<buckets, objects, versioned>>

Delete ==
    /\ ncalls < MaxCalls
    /\ \E bucket \in BucketNames, key \in Keys :
       \E t \in S3DeleteObject(bucket, key) :
          /\ objects' = t.objects
          /\ ret' = Call("delete", [bucket |-> bucket, key |-> key],
                         Sdk("delete_object", t.r), delete(t.r))
    /\ ncalls' = ncalls + 1
    /\ UNCHANGED <<buckets, versioned, files, dirs>>

Next ==
    \/ CreateBucket
    \/ DeleteBucket
    \/ ListBuckets
    \/ ListObjects
    \/ CreatePresignedUrl
    \/ Upload
    \/ Download
    \/ Delete

Spec == Init /\ [][Next]_vars

----------------------------------------------------------------------------
(* Reading the last call *)

SdkCalls == {"create_bucket", "delete_bucket", "list_buckets", "list_objects_v2",
             "generate_presigned_url", "upload_file", "head_object",
             "download_file", "delete_object"}

ReturnedTrue == ret.outcome = "return" /\ ret.value.type = "bool" /\ ret.value.v = TRUE

ReturnedNone == ret.outcome = "return" /\ ret.value.type = "NoneType"

ReturnedList == ret.outcome = "return" /\ ret.value.type = "list"

Raised(t) == ret.outcome = "raise" /\ ret.value.type = t

(* The facade's one error kind: Exception(e.response). *)
RaisedRemoteServiceError(e) == Raised("Exception") /\ ret.value.args = e.response

Issued(name) == \E i \in DOMAIN ret.calls : ret.calls[i].call = name

Answer(name) == ret.calls[CHOOSE i \in DOMAIN ret.calls : ret.calls[i].call = name].r

NoSdkFailure ==
    \A i \in DOMAIN ret.calls :
        ret.calls[i].call \in SdkCalls => ret.calls[i].r.kind = "ok"

Status(r) == r.response["ResponseMetadata"]["HTTPStatusCode"]

----------------------------------------------------------------------------
(* Claims *)

(* C1: create_bucket returns True exactly when the service answers with a  *)
(* success status (a response, not an error), raises the facade's error    *)
(* wrapping the service's error on every error status, and has no third    *)
(* outcome: it never returns without yielding True.                         *)
C1_CreateBucketTrueOrRaises ==
    ret.op = "create_bucket" /\ Answer("create_bucket").kind \in {"ok", "ClientError"} =>
        /\ ReturnedTrue <=> Answer("create_bucket").kind = "ok"
        /\ Answer("create_bucket").kind = "ClientError" =>
               RaisedRemoteServiceError(Answer("create_bucket"))
        /\ ReturnedTrue \/ ret.outcome = "raise"

(* C3: list_objects either returns a sequence (the descriptors, or their   *)
(* keys in the same order when keys_only) or fails with the facade's error; *)
(* this also on a bucket that exists and holds no object.                   *)
C3_ListObjectsSequenceOrError ==
    ret.op = "list_objects" /\ Answer("list_objects_v2").kind \in {"ok", "ClientError"} =>
        \/ RaisedRemoteServiceError(Answer("list_objects_v2"))
        \/ /\ ReturnedList
           /\ Len(ret.value.v) = Len(Listing(ret.args.bucket))
           /\ \A i \in DOMAIN ret.value.v :
                 ret.value.v[i] = IF ret.args.keys_only
                                  THEN Listing(ret.args.bucket)[i].Key
                                  ELSE Listing(ret.args.bucket)[i]

(* C4: whether or not a filesize is given and whether or not the source    *)
(* file exists, upload reaches the SDK transfer call, then returns True if *)
(* the transfer completes and raises the facade's error on a service error. *)
C4_UploadReachesTransfer ==
    ret.op = "upload" =>
        /\ Issued("upload_file")
        /\ Answer("upload_file").kind = "ok" => ReturnedTrue
        /\ Answer("upload_file").kind = "ClientError" =>
               RaisedRemoteServiceError(Answer("upload_file"))

(* C8: delete returns the pair (marker, response metadata) whenever the    *)
(* service answers 204, with marker false on a bucket without versioning   *)
(* and true on a versioned one, and fails with the facade's error whenever *)
(* the service answers anything else.                                       *)
C8_DeletePairOrError ==
    ret.op = "delete" /\ Answer("delete_object").kind \in {"ok", "ClientError"} =>
        IF Answer("delete_object").kind = "ok" /\ Status(Answer("delete_object")) = 204
        THEN /\ ret.outcome = "return" /\ ret.value.type = "tuple"
             /\ ret.value.v0 = (ret.args.bucket \in versioned)
             /\ ret.value.v1 = Answer("delete_object").response["ResponseMetadata"]
        ELSE Raised("Exception")

(* C2, as claimed: whatever error an SDK call of an operation surfaces, the *)
(* operation raises the facade's one error kind carrying that error's       *)
(* response; none escapes in another form.                                   *)
C2_EverySdkErrorWrapped ==
    \A i \in DOMAIN ret.calls :
        ret.calls[i].call \in SdkCalls /\ ret.calls[i].r.kind # "ok" =>
            RaisedRemoteServiceError(ret.calls[i].r)

(* C2, amended: in each of the eight operations a ClientError surfaced by  *)
(* an SDK call is re-raised as the facade's one error kind carrying the    *)
(* error's response; an SDK error of any other kind leaves the operation  *)
(* as it is; no operation returns normally after an SDK error.              *)
C2_ClientErrorWrapped ==
    \A i \in DOMAIN ret.calls :
        ret.calls[i].call \in SdkCalls =>
            /\ ret.calls[i].r.kind = "ClientError" =>
                   RaisedRemoteServiceError(ret.calls[i].r)
            /\ ret.calls[i].r.kind = "SdkError" =>
                   Raised("SdkError") /\ ret.value.args = ret.calls[i].r.response

C2_Witness ==
    /\ ret.op = "upload"
    /\ Issued("upload_file")
    /\ Answer("upload_file").kind = "ClientError"
    /\ Raised("Exception")

(* The key an upload call names: the one given, else the last component of *)
(* file_name.                                                               *)
NamedKey(args) == IF args.key.some THEN args.key.v ELSE <<args.file_name[Len(args.file_name)]>>

C5_UploadStores ==
    ret.op = "upload" /\ ~ret.args.filesize.some /\ ret.args.file_name \in DOMAIN files
                      /\ NoSdkFailure =>
        /\ ReturnedTrue
        /\ HasObject(ret.args.bucket, NamedKey(ret.args))
        /\ objects[ret.args.bucket][NamedKey(ret.args)] = files[ret.args.file_name]

C5_DownloadAfterUpload ==
    /\ ret.op = "upload" /\ ReturnedTrue
    /\ ret'.op = "download" /\ NoSdkFailure'
    /\ ret'.args.bucket = ret.args.bucket /\ ret'.args.key = NamedKey(ret.args)
    => /\ ReturnedTrue'
       /\ (ret'.args.local_dir \o <<ret'.args.key[Len(ret'.args.key)]>>) \in DOMAIN files'
       /\ files'[ret'.args.local_dir \o <<ret'.args.key[Len(ret'.args.key)]>>]
              = files[ret.args.file_name]

C5_DownloadWrites ==
    ret.op = "download" /\ ReturnedTrue =>
        /\ HasObject(ret.args.bucket, ret.args.key)
        /\ (ret.args.local_dir \o <<ret.args.key[Len(ret.args.key)]>>) \in DOMAIN files
        /\ files[ret.args.local_dir \o <<ret.args.key[Len(ret.args.key)]>>]
               = objects[ret.args.bucket][ret.args.key]

(* C5: an upload of a local file under a key, then a download of the same  *)
(* bucket and key, the service failing neither: both return True and the   *)
(* local file local_dir/basename(key) holds the uploaded source's content. *)
(* The upload leaves the source's content under the key, and a download    *)
(* returning True leaves the content held under the key in the local file. *)
C5_RoundTrip ==
    /\ []C5_UploadStores
    /\ []C5_DownloadWrites
    /\ [][C5_DownloadAfterUpload]_vars

C5_Witness ==
    /\ ret.op = "download" /\ ReturnedTrue
    /\ ret.args.key = <<"p", "b.yml">>
    /\ (OutDir \o <<"b.yml">>) \in DOMAIN files
    /\ files[OutDir \o <<"b.yml">>] = <<7>>
    /\ files[SrcA] = <<>>

C6_StoredUnderNamedKey ==
    ret'.op = "upload" /\ ReturnedTrue' =>
        objects' = [objects EXCEPT ![ret'.args.bucket] =
                        With(@, NamedKey(ret'.args), files[ret'.args.file_name])]

C6_ListedAfterUpload ==
    /\ ret.op = "upload" /\ ReturnedTrue
    /\ ret'.op = "list_objects" /\ NoSdkFailure'
    /\ ret'.args.bucket = ret.args.bucket /\ ret'.args.keys_only
    => /\ ReturnedList'
       /\ \E i \in DOMAIN ret'.value.v : ret'.value.v[i] = NamedKey(ret.args)

C7_Projection ==
    /\ ret.op = "list_buckets" /\ ReturnedList
    /\ ret'.op = "list_buckets" /\ ReturnedList'
    /\ ret.args.names_only # ret'.args.names_only
    => LET full  == IF ret.args.names_only THEN ret'.value.v ELSE ret.value.v
           names == IF ret.args.names_only THEN ret.value.v ELSE ret'.value.v
       IN  /\ Len(names) = Len(full)
           /\ \A i \in 1..Len(full) : names[i] = full[i].Name

(* C7: on one service state, list_buckets(names_only=True) returns the     *)
(* name of each descriptor list_buckets(names_only=False) returns: same    *)
(* length, same order.                                                      *)
C7_NamesAreProjection == [][C7_Projection]_vars

C7_Witness ==
    /\ ret.op = "list_buckets" /\ ret.args.names_only
    /\ ReturnedList
    /\ ret.value.v = <<"bucket2", "bucket1">>

C9_Order ==
    ret'.op = "download" =>
        LET c     == ret'.calls
            dir   == ret'.args.local_dir
            h     == IF dir \in dirs THEN 1 ELSE 2
            local == dir \o <<ret'.args.key[Len(ret'.args.key)]>>
        IN  /\ Len(c) >= h
            /\ dir \notin dirs => c[1].call = "makedirs"
            /\ dir \in dirs'
            /\ dir \in dirs => dirs' = dirs
            /\ c[h].call = "head_object"
            /\ Len(c) = IF c[h].r.kind = "ok" THEN h + 1 ELSE h
            /\ Len(c) = h + 1 => c[h + 1].call = "download_file"
            /\ ReturnedTrue' => Len(c) = h + 1 /\ c[h + 1].r.kind = "ok"
            /\ files' # files =>
                   /\ Len(c) = h + 1 /\ c[h + 1].r.kind = "ok"
                   /\ \A p \in DOMAIN files : p # local => p \in DOMAIN files' /\ files'[p] = files[p]
                   /\ DOMAIN files' = DOMAIN files \cup {local}

(* C9: download first ensures local_dir exists (made if absent, untouched  *)
(* if present), then asks for the object's metadata, and starts the        *)
(* transfer to local_dir/basename(key) only once that has succeeded; it    *)
(* returns True only after the transfer has completed.                      *)
C9_DownloadOrder == [][C9_Order]_vars

C9_Witness ==
    /\ ret.op = "download" /\ ReturnedTrue
    /\ Len(ret.calls) = 3
    /\ ret.calls[1].call = "makedirs"
    /\ OutDir \in dirs

C10_Frame ==
    ret'.op = "download" =>
        /\ ~HasObject(ret'.args.bucket, ret'.args.key) \/ ~NoSdkFailure' =>
               ret'.outcome = "raise"
        /\ ret'.outcome = "raise" =>
               /\ files' = files
               /\ ret'.args.local_dir \in dirs'
               /\ dirs' = dirs \cup Prefixes(ret'.args.local_dir)

(* C10: a download that fails (the object missing, or any service error)   *)
(* raises and writes no local file, yet local_dir, absent before, has been *)
(* made with its missing parents and stays; nothing else local changes.    *)
C10_FailedDownloadLeavesDir == [][C10_Frame]_vars

C10_Witness ==
    /\ ret.op = "download" /\ ret.outcome = "raise"
    /\ ncalls = 1
    /\ OutDir \in dirs
    /\ DOMAIN files = {SrcA, SrcB}

====
